---- MODULE Spec2Model ----
(***************************************************************************)
(* A model of PreferencesController (identities, lost identities, the     *)
(* selected address, the token list and the feature flags).               *)
(*                                                                         *)
(* A JavaScript object used as a map keeps its string keys in insertion   *)
(* order, and the code reads that order (Object.keys(identities)[0]), so  *)
(* identities is a sequence of entries [key, val] in insertion order.     *)
(* An identity record is a function from its field names to its values:   *)
(* a record made by setAccountLabel alone has no "address" field.         *)
(*                                                                         *)
(* update(partial) of the base controller lays the given fields over the  *)
(* state and leaves the others as they are; every operation below is the  *)
(* whole method, its update calls included.                               *)
(*                                                                         *)
(* last is an observer's record of one call: the operation, its           *)
(* arguments, the state it found (pre), what it returned (ret) and how    *)
(* many times it called update. A run is any sequence of calls; the       *)
(* observer may record one of them, and the run is followed no further    *)
(* than the recorded call. Every call from every reachable state is       *)
(* recorded in some run, so a property of "the state after the call,      *)
(* given the state before" is an invariant over last.                     *)
(*                                                                         *)
(* The second part models the two ERC721Standard probes: the one that is  *)
(* given a contract address and the one that is given a contract's bound  *)
(* methods. contract holds what the deployed contract answers to each     *)
(* remote call; probe holds, for each variant, the operation it was       *)
(* asked, the remote calls it has issued so far, in order, and how its    *)
(* promise settled. When both variants are asked, they are asked the same *)
(* question, so that their calls and results can be compared.             *)
(***************************************************************************)
EXTENDS Integers, Sequences, FiniteSets, TLC

VARIABLES identities, lostIdentities, selectedAddress, tokens, featureFlags, last,
          contract, probe

vars == <<identities, lostIdentities, selectedAddress, tokens, featureFlags, last,
          contract, probe>>

\* ---------------------------------------------------------------- bounds

\* The longest address list handed to addIdentities, syncIdentities and
\* updateIdentities.
MaxLen == 2

\* ------------------------------------------------------------- addresses

\* The addresses callers pass in: the same account in several letter cases.
RawAddresses == {"0xab", "0xaB", "0xCd"}

\* The value JavaScript gives for a missing property or array element.
Undefined == "<undefined>"

\* toChecksumAddress of ethereumjs-util: case-insensitive on its input, it
\* yields the one mixed-case form of the address.
toChecksumAddress(address) ==
    CASE address \in {"0xab", "0xaB", "0xAB"} -> "0xaB"
      [] address \in {"0xcd", "0xCd", "0xCD"} -> "0xCd"
      [] address \in {"0xef", "0xEf", "0xEF"} -> "0xEf"

Labels == {"Savings"}

\* `Account ${n}`
AccountName(n) == "Account " \o ToString(n)

\* ----------------------------------------------- objects as ordered maps

Range(s) == {s[i] : i \in 1..Len(s)}

\* The keys of m
KeySet(m) == {m[i].key : i \in 1..Len(m)}

\* m[k] for a key that is present
GetVal(m, k) == m[CHOOSE i \in 1..Len(m) : m[i].key = k].val

\* m[k] = v: an existing key keeps its place, a new key goes last
Put(m, k, v) ==
    IF k \in KeySet(m)
    THEN [i \in 1..Len(m) |-> IF m[i].key = k THEN [key |-> k, val |-> v] ELSE m[i]]
    ELSE Append(m, [key |-> k, val |-> v])

\* delete m[k]
Delete(m, k) == SelectSeq(m, LAMBDA e : e.key # k)

\* Object.keys(m)[0]
FirstKey(m) == IF Len(m) = 0 THEN Undefined ELSE m[1].key

\* addresses.indexOf(a) === -1
NotIn(addresses, a) == a \notin Range(addresses)

\* addresses.map(toChecksumAddress)
ChecksumAll(addresses) == [i \in 1..Len(addresses) |-> toChecksumAddress(addresses[i])]

\* { ...a, ...b }: the fields of b laid over those of a
Overlay(a, b) ==
    [f \in (DOMAIN a) \cup (DOMAIN b) |-> IF f \in DOMAIN b THEN b[f] ELSE a[f]]

\* The empty object {}
EmptyObject == [f \in {} |-> ""]

\* lost[k] = v on the lostIdentities object
SetField(obj, k, v) == [f \in (DOMAIN obj) \cup {k} |-> IF f = k THEN v ELSE obj[f]]

\* ------------------------------------------------------------- the state

\* this.state
State ==
    [identities |-> identities, lostIdentities |-> lostIdentities,
     selectedAddress |-> selectedAddress, tokens |-> tokens,
     featureFlags |-> featureFlags]

\* update(partial): the fields given are laid over the state, and the
\* subscribers are told of the new state.
Update(state, partial) ==
    [f \in DOMAIN state |-> IF f \in DOMAIN partial THEN partial[f] ELSE state[f]]

\* The state the call leaves.
Becomes(state) ==
    /\ identities' = state.identities
    /\ lostIdentities' = state.lostIdentities
    /\ selectedAddress' = state.selectedAddress
    /\ tokens' = state.tokens
    /\ featureFlags' = state.featureFlags
    /\ UNCHANGED <<contract, probe>>

\* No call recorded yet.
Idle == [op |-> "none"]

\* A call can be made: the observer has recorded none yet.
Unobserved == last = Idle

\* The observer records this call or lets it pass.
Observed(call) == last' \in {Idle, call}

\* The store as constructed.
StoreInit ==
    /\ identities = <<>>
    /\ lostIdentities = EmptyObject
    /\ selectedAddress = ""
    /\ tokens = <<>>
    /\ featureFlags = EmptyObject
    /\ last = Idle

\* The two variants of the probe.
Variants == {"address", "methods"}

\* A probe that has been asked nothing.
Unasked == [pc |-> "idle"]

Init ==
    /\ StoreInit
    /\ contract = EmptyObject
    /\ probe = [v \in Variants |-> Unasked]

\* ---------------------------------------------------------- addIdentities

\* A faulty variant: an address that already is a key is not
\* skipped, so it is numbered again.
RECURSIVE AddLoopNoSkip(_, _)
AddLoopNoSkip(ids, addresses) ==
    IF addresses = <<>> THEN ids
    ELSE LET address == toChecksumAddress(Head(addresses))
             identityCount == Len(ids)
         IN AddLoopNoSkip(Put(ids, address,
                              [name |-> AccountName(identityCount + 1),
                               address |-> address]),
                          Tail(addresses))

\* A faulty variant: an address that was lost gets its lost
\* record back instead of a fresh one.
RECURSIVE AddLoopRestoring(_, _)
AddLoopRestoring(ids, addresses) ==
    IF addresses = <<>> THEN ids
    ELSE LET address == toChecksumAddress(Head(addresses))
             identityCount == Len(ids)
         IN IF address \in KeySet(ids)
            THEN AddLoopRestoring(ids, Tail(addresses))
            ELSE AddLoopRestoring(
                     Put(ids, address,
                         IF address \in DOMAIN lostIdentities
                         THEN lostIdentities[address]
                         ELSE [name |-> AccountName(identityCount + 1),
                               address |-> address]),
                     Tail(addresses))

\* The forEach body, run over the rest of the list: the address is
\* checksummed, an address that already is a key is skipped, and the name is
\* numbered from the size of the map at that moment.
RECURSIVE AddLoop(_, _)
AddLoop(ids, addresses) ==
    IF addresses = <<>> THEN ids
    ELSE LET address == toChecksumAddress(Head(addresses))
             identityCount == Len(ids)
         IN IF address \in KeySet(ids)
            THEN AddLoop(ids, Tail(addresses))
            ELSE AddLoop(Put(ids, address,
                             [name |-> AccountName(identityCount + 1),
                              address |-> address]),
                         Tail(addresses))

AddressLists == UNION {[1..n -> RawAddresses] : n \in 0..MaxLen}

\* toChecksumAddress throws on a value that is no string.
Throws(address) == address = Undefined

\* The elements the forEach gets through before toChecksumAddress throws.
RECURSIVE BeforeThrow(_)
BeforeThrow(addresses) ==
    IF addresses = <<>> THEN <<>>
    ELSE IF Throws(Head(addresses)) THEN <<>>
         ELSE <<Head(addresses)>> \o BeforeThrow(Tail(addresses))

\* Lists with an element that is no string.
MixedLists == UNION {[1..n -> RawAddresses \cup {Undefined}] : n \in 0..(MaxLen + 1)}

\* A faulty variant: a call that throws leaves the identities as they were
\* before the call.
addIdentitiesRollingBack(addresses) ==
    LET reached == BeforeThrow(addresses)
        ids == AddLoop(identities, reached)
    IN /\ Unobserved
       /\ IF reached = addresses
          THEN /\ Becomes(Update(State, [identities |-> ids]))
               /\ Observed([op |-> "addIdentities", addresses |-> addresses,
                            pre |-> State, updates |-> 1])
          ELSE /\ Becomes(State)
               /\ Observed([op |-> "addIdentities", addresses |-> addresses,
                            pre |-> State, updates |-> 0])

\* The loop writes into the identities object of this.state itself; update
\* is reached only if no element makes toChecksumAddress throw.
addIdentities(addresses) ==
    LET reached == BeforeThrow(addresses)
        ids == AddLoop(identities, reached)
    IN /\ Unobserved
       /\ IF reached = addresses
          THEN /\ Becomes(Update(State, [identities |-> ids]))
               /\ Observed([op |-> "addIdentities", addresses |-> addresses,
                            pre |-> State, updates |-> 1])
          ELSE /\ Becomes([State EXCEPT !.identities = ids])
               /\ Observed([op |-> "addIdentities", addresses |-> addresses,
                            pre |-> State, updates |-> 0])

\* --------------------------------------------------------- removeIdentity

\* A faulty variant: the address selected is the removed one
\* again.
RemoveSelectedStale(selected, checksummed, remaining) == selected

\* Object.keys(identities)[0], the address selected when the removed one
\* was the selected one
RemoveSelected(selected, checksummed, remaining) == FirstKey(remaining)

removeIdentity(address) ==
    LET checksummed == toChecksumAddress(address)
        removed == Update(State, [identities |-> Delete(identities, checksummed)])
        selected == RemoveSelected(removed.selectedAddress, checksummed,
                                   removed.identities)
        reselected == Update(removed, [selectedAddress |-> selected])
    IN /\ Unobserved
       /\ IF checksummed \notin KeySet(identities)
          THEN /\ Becomes(State)
               /\ Observed([op |-> "removeIdentity", address |-> address,
                            pre |-> State, updates |-> 0])
          ELSE IF checksummed = removed.selectedAddress
          THEN /\ Becomes(reselected)
               /\ Observed([op |-> "removeIdentity", address |-> address,
                            pre |-> State, updates |-> 2])
          ELSE /\ Becomes(removed)
               /\ Observed([op |-> "removeIdentity", address |-> address,
                            pre |-> State, updates |-> 1])

\* -------------------------------------------------------- setAccountLabel

\* identities[address] = identities[address] || {}; identities[address].name = label
Labelled(ids, address, label) ==
    LET old == IF address \in KeySet(ids) THEN GetVal(ids, address) ELSE EmptyObject
    IN Put(ids, address, Overlay(old, [name |-> label]))

setAccountLabel(address, label) ==
    LET updated == Update(State, [identities |->
                       Labelled(identities, toChecksumAddress(address), label)])
    IN /\ Unobserved
       /\ Becomes(updated)
       /\ Observed([op |-> "setAccountLabel", address |-> address,
                    label |-> label, pre |-> State, updates |-> 1])

\* --------------------------------------------------------- syncIdentities

\* A faulty variant: the loop deletes every identity, listed
\* or not.
SyncKeptNone(ids, addresses) == <<>>

\* The identities the for-in loop leaves in place: those whose key is in the
\* checksummed list.
SyncKept(ids, addresses) ==
    SelectSeq(ids, LAMBDA e : ~NotIn(addresses, e.key))

\* newlyLost: the entries the loop deletes, in key order.
SyncNewlyLost(ids, addresses) ==
    SelectSeq(ids, LAMBDA e : NotIn(addresses, e.key))

\* A faulty variant: an address already among the lost keeps
\* its earlier record.
RECURSIVE SyncLostKeepsOld(_, _)
SyncLostKeepsOld(lost, newlyLost) ==
    IF newlyLost = <<>> THEN lost
    ELSE SyncLostKeepsOld(
             IF Head(newlyLost).key \in DOMAIN lost THEN lost
             ELSE SetField(lost, Head(newlyLost).key, Head(newlyLost).val),
             Tail(newlyLost))

\* lostIdentities[key] = newlyLost[key] for every key of newlyLost
RECURSIVE SyncLost(_, _)
SyncLost(lost, newlyLost) ==
    IF newlyLost = <<>> THEN lost
    ELSE SyncLost(SetField(lost, Head(newlyLost).key, Head(newlyLost).val),
                  Tail(newlyLost))

\* A faulty variant: the address selected before stays selected.
SyncSelectedKeepsOld(selected, addresses) == selected

\* addresses[0], the address selected when the one selected is not in the
\* list: undefined for an empty list.
SyncSelected(selected, addresses) ==
    IF addresses = <<>> THEN Undefined ELSE addresses[1]

syncIdentities(rawAddresses) ==
    LET addresses == ChecksumAll(rawAddresses)
        newlyLost == SyncNewlyLost(identities, addresses)
        moved == Update(State,
                        [identities |-> SyncKept(identities, addresses),
                         lostIdentities |-> SyncLost(lostIdentities, newlyLost)])
        added == Update(moved, [identities |-> AddLoop(moved.identities, addresses)])
        reselected == Update(added, [selectedAddress |->
                                        SyncSelected(added.selectedAddress, addresses)])
    IN /\ Unobserved
       /\ IF NotIn(addresses, added.selectedAddress)
          THEN /\ Becomes(reselected)
               /\ Observed([op |-> "syncIdentities", addresses |-> rawAddresses,
                            pre |-> State, ret |-> reselected.selectedAddress,
                            updates |-> 3])
          ELSE /\ Becomes(added)
               /\ Observed([op |-> "syncIdentities", addresses |-> rawAddresses,
                            pre |-> State, ret |-> added.selectedAddress,
                            updates |-> 2])

\* ------------------------------------------------------- updateIdentities

\* A faulty variant: the spread is written the other way
\* round, the fresh default over the old record.
RECURSIVE UpdateLoopFreshOverOld(_, _, _, _)
UpdateLoopFreshOverOld(ids, oldIdentities, addresses, index) ==
    IF index >= Len(addresses) THEN ids
    ELSE LET address == addresses[index + 1]
             old == IF address \in KeySet(oldIdentities)
                    THEN GetVal(oldIdentities, address) ELSE EmptyObject
             fresh == [address |-> address, name |-> AccountName(index + 1)]
         IN UpdateLoopFreshOverOld(Put(ids, address, Overlay(old, fresh)),
                                   oldIdentities, addresses, index + 1)

\* The reduce over the checksummed list: index counts from 0, and the old
\* record's fields are spread over the freshly numbered default.
RECURSIVE UpdateLoop(_, _, _, _)
UpdateLoop(ids, oldIdentities, addresses, index) ==
    IF index >= Len(addresses) THEN ids
    ELSE LET address == addresses[index + 1]
             old == IF address \in KeySet(oldIdentities)
                    THEN GetVal(oldIdentities, address) ELSE EmptyObject
             fresh == [address |-> address, name |-> AccountName(index + 1)]
         IN UpdateLoop(Put(ids, address, Overlay(fresh, old)),
                       oldIdentities, addresses, index + 1)

\* A faulty variant: the new map is built on top of the old
\* one instead of from the empty object.
updateIdentitiesMerging(rawAddresses) ==
    LET updated == Update(State, [identities |->
                       UpdateLoop(identities, identities, ChecksumAll(rawAddresses), 0)])
    IN /\ Unobserved
       /\ Becomes(updated)
       /\ Observed([op |-> "updateIdentities", addresses |-> rawAddresses,
                    pre |-> State, updates |-> 1])

updateIdentities(rawAddresses) ==
    LET updated == Update(State, [identities |->
                       UpdateLoop(<<>>, identities, ChecksumAll(rawAddresses), 0)])
    IN /\ Unobserved
       /\ Becomes(updated)
       /\ Observed([op |-> "updateIdentities", addresses |-> rawAddresses,
                    pre |-> State, updates |-> 1])

\* ------------------------------------------------------------ token list

\* tokens.find(...) then tokens.indexOf(previousEntry): the first index
\* whose address is the checksummed one, 0 when there is none.
PreviousIndex(toks, address) ==
    IF \E i \in 1..Len(toks) : toks[i].address = address
    THEN CHOOSE i \in 1..Len(toks) :
            /\ toks[i].address = address
            /\ \A j \in 1..(i - 1) : toks[j].address # address
    ELSE 0

\* A faulty variant: the earlier entry is taken out and the
\* new one pushed at the end.
AddedTokenAtEnd(toks, address, symbol, decimals) ==
    Append(SelectSeq(toks, LAMBDA token : token.address # address),
           [address |-> address, symbol |-> symbol, decimals |-> decimals])

AddedToken(toks, address, symbol, decimals) ==
    LET newEntry == [address |-> address, symbol |-> symbol, decimals |-> decimals]
        previousIndex == PreviousIndex(toks, address)
    IN IF previousIndex # 0
       THEN [toks EXCEPT ![previousIndex] = newEntry]
       ELSE Append(toks, newEntry)

addToken(address, symbol, decimals) ==
    LET updated == Update(State, [tokens |->
                       AddedToken(tokens, toChecksumAddress(address), symbol, decimals)])
    IN /\ Unobserved
       /\ Becomes(updated)
       /\ Observed([op |-> "addToken", address |-> address, symbol |-> symbol,
                    decimals |-> decimals, pre |-> State, ret |-> updated.tokens,
                    updates |-> 1])

\* oldTokens.filter((token) => token.address !== address)
WithoutToken(toks, address) == SelectSeq(toks, LAMBDA token : token.address # address)

\* A faulty variant: the address is compared as it was given, not
\* checksummed.
removeTokenUnnormalized(address) ==
    LET updated == Update(State, [tokens |-> WithoutToken(tokens, address)])
    IN /\ Unobserved
       /\ Becomes(updated)
       /\ Observed([op |-> "removeToken", address |-> address, pre |-> State,
                    updates |-> 1])

removeToken(address) ==
    LET updated == Update(State, [tokens |->
                       WithoutToken(tokens, toChecksumAddress(address))])
    IN /\ Unobserved
       /\ Becomes(updated)
       /\ Observed([op |-> "removeToken", address |-> address, pre |-> State,
                    updates |-> 1])

\* --------------------------------------------------------- feature flags

\* A faulty variant: the flag is written to an empty object, not laid over
\* the old flags.
setFeatureFlagAlone(feature, activated) ==
    LET updated == Update(State, [featureFlags |->
                       SetField(EmptyObject, feature, activated)])
    IN /\ Unobserved
       /\ Becomes(updated)
       /\ Observed([op |-> "setFeatureFlag", feature |-> feature,
                    activated |-> activated, pre |-> State,
                    updates |-> 1])

\* { ...oldFeatureFlags, ...{ [feature]: activated } }
setFeatureFlag(feature, activated) ==
    LET updated == Update(State, [featureFlags |->
                       SetField(featureFlags, feature, activated)])
    IN /\ Unobserved
       /\ Becomes(updated)
       /\ Observed([op |-> "setFeatureFlag", feature |-> feature,
                    activated |-> activated, pre |-> State,
                    updates |-> 1])

\* ------------------------------------------------------- specifications

Symbols == {"TKN", "TKN2"}
DecimalsSet == {6, 18}
Features == {"beta", "dark"}

IdentityNext ==
    \/ \E addresses \in AddressLists : addIdentities(addresses)
    \/ \E address \in RawAddresses : removeIdentity(address)
    \/ \E address \in RawAddresses, label \in Labels : setAccountLabel(address, label)
    \/ \E addresses \in AddressLists : syncIdentities(addresses)
    \/ \E addresses \in AddressLists : updateIdentities(addresses)

\* The token contracts callers name: three of them, one in two letter cases.
TokenAddresses == RawAddresses \cup {"0xEf"}

TokenNext ==
    \/ \E address \in TokenAddresses, symbol \in Symbols, decimals \in DecimalsSet :
          addToken(address, symbol, decimals)
    \/ \E address \in TokenAddresses : removeToken(address)
    \/ \E feature \in Features, activated \in BOOLEAN : setFeatureFlag(feature, activated)

\* The token and flag calls of the specification of all the operations: one
\* token and one flag, so that they interleave with every identity call.
FewTokenNext ==
    \/ addToken("0xab", "TKN", 18)
    \/ removeToken("0xaB")
    \/ setFeatureFlag("beta", TRUE)

Next == IdentityNext \/ FewTokenNext

\* Lists of at most one address.
ShortLists == UNION {[1..n -> RawAddresses] : n \in 0..1}

\* Every operation of the store, the identity calls over short lists and
\* the token calls over one contract.
FrameNext ==
    \/ \E addresses \in ShortLists : addIdentities(addresses)
    \/ \E address \in RawAddresses : removeIdentity(address)
    \/ \E address \in RawAddresses, label \in Labels : setAccountLabel(address, label)
    \/ \E addresses \in ShortLists : syncIdentities(addresses)
    \/ \E addresses \in ShortLists : updateIdentities(addresses)
    \/ addToken("0xab", "TKN", 18)
    \/ removeToken("0xaB")
    \/ \E feature \in Features, activated \in BOOLEAN : setFeatureFlag(feature, activated)

\* addIdentities over lists that make toChecksumAddress throw, between
\* removals.
AbortNext ==
    \/ \E addresses \in MixedLists : addIdentities(addresses)
    \/ \E address \in RawAddresses : removeIdentity(address)

SpecIdentities == Init /\ [][IdentityNext]_vars
SpecTokens == Init /\ [][TokenNext]_vars
SpecAbort == Init /\ [][AbortNext]_vars
SpecFrame == Init /\ [][FrameNext]_vars
Spec == Init /\ [][Next]_vars

(***************************************************************************)
(* The ERC721Standard probes                                               *)
(***************************************************************************)

\* The interface identifiers and the standard's name.
ERC721_INTERFACE_ID == "0x80ac58cd"
ERC721_METADATA_INTERFACE_ID == "0x5b5e139f"
ERC721_ENUMERABLE_INTERFACE_ID == "0x780e9d63"
ERC721 == "ERC721"

InterfaceIds ==
    {ERC721_INTERFACE_ID, ERC721_METADATA_INTERFACE_ID, ERC721_ENUMERABLE_INTERFACE_ID}

\* The two errors the probes raise themselves.
MetadataError == "Contract does not support ERC721 metadata interface."
NotERC721Error == "This isn't a valid ERC721 contract"

\* What a remote call hands to its callback: an error or a result.
Failed(error) == [error |-> error]
Answered(result) == [result |-> result]

\* How a promise ends.
Pending == [status |-> "pending"]
Resolved(value) == [status |-> "resolved", value |-> value]
Rejected(error) == [status |-> "rejected", error |-> error]

\* The inputs: one deployed contract, one owner, one index, one token.
ContractAddress == "0xC0"
Owners == {"0xaB"}
Indexes == {0}
TokenIds == {"7"}

\* Every way the deployed contract can answer: each interface query with
\* true, false or an error, every other method with a value or an error.
Contracts ==
    [supportsInterface :
        [InterfaceIds -> {Answered(TRUE), Answered(FALSE), Failed("supportsInterface reverted")}],
     tokenOfOwnerByIndex : {Answered("7"), Failed("tokenOfOwnerByIndex reverted")},
     tokenURI : {Answered("ipfs://7"), Failed("tokenURI reverted")},
     name : {Answered("Kitties"), Failed("name reverted")},
     symbol : {Answered("KIT"), Failed("symbol reverted")},
     ownerOf : {Answered("0xaB"), Failed("ownerOf reverted")}]

\* What the deployed contract hands to the callback of a remote call.
Answer(call) ==
    IF call.method = "supportsInterface"
    THEN contract.supportsInterface[call.args[1]]
    ELSE contract[call.method]

ProbeInit ==
    /\ StoreInit
    /\ contract \in Contracts
    /\ probe = [v \in Variants |-> Unasked]

StoreUnchanged ==
    UNCHANGED <<identities, lostIdentities, selectedAddress, tokens, featureFlags, last>>

\* Variant v can be asked: it has been asked nothing, and the other variant
\* has been asked nothing or the same question.
Asks(v, ask) ==
    /\ probe[v] = Unasked
    /\ \A w \in Variants \ {v} : IF probe[w] = Unasked THEN TRUE ELSE probe[w].ask = ask

\* Variant v goes on: it has issued calls, waits at pc for the answers named
\* in waiting, and has gathered got.
Goes(v, ask, calls, pc, waiting, got) ==
    /\ probe' = [probe EXCEPT ![v] =
                    [pc |-> pc, ask |-> ask, calls |-> calls, waiting |-> waiting,
                     got |-> got, result |-> Pending]]
    /\ UNCHANGED contract
    /\ StoreUnchanged

\* Variant v's promise ends.
Ends(v, result) ==
    /\ probe' = [probe EXCEPT ![v] =
                    [pc |-> "done", ask |-> probe[v].ask, calls |-> probe[v].calls,
                     waiting |-> {}, got |-> probe[v].got, result |-> result]]
    /\ UNCHANGED contract
    /\ StoreUnchanged

\* Variant v issues one remote call and waits for its callback.
Awaits(v, ask, call) == Goes(v, ask, <<call>>, "call", {}, <<>>)

(***************************************************************************)
(* The probe that is given a contract address                              *)
(***************************************************************************)

\* this.web3.eth.contract(abiERC721).at(address).method(...args, callback)
AddressCall(address, method, args) ==
    [to |-> address, method |-> method, args |-> args]

\* The callback of every remote call: reject with the error, if any, else
\* resolve with the result.
AddressCallback(answer) ==
    IF "error" \in DOMAIN answer THEN Rejected(answer.error) ELSE Resolved(answer.result)

Address_contractSupportsInterface(address, interfaceId) ==
    AddressCall(address, "supportsInterface", <<interfaceId>>)

Address_contractSupportsMetadataInterface(address) ==
    LET ask == [kind |-> "supportsMetadata"] IN
    /\ Asks("address", ask)
    /\ Awaits("address", ask,
              Address_contractSupportsInterface(address, ERC721_METADATA_INTERFACE_ID))

Address_contractSupportsEnumerableInterface(address) ==
    LET ask == [kind |-> "supportsEnumerable"] IN
    /\ Asks("address", ask)
    /\ Awaits("address", ask,
              Address_contractSupportsInterface(address, ERC721_ENUMERABLE_INTERFACE_ID))

Address_contractSupportsBase721Interface(address) ==
    LET ask == [kind |-> "supportsBase721"] IN
    /\ Asks("address", ask)
    /\ Awaits("address", ask,
              Address_contractSupportsInterface(address, ERC721_INTERFACE_ID))

Address_getCollectibleTokenId(address, selected, index) ==
    LET ask == [kind |-> "tokenId", selectedAddress |-> selected, index |-> index] IN
    /\ Asks("address", ask)
    /\ Awaits("address", ask, AddressCall(address, "tokenOfOwnerByIndex", <<selected, index>>))

Address_getAssetName(address) ==
    LET ask == [kind |-> "name"] IN
    /\ Asks("address", ask)
    /\ Awaits("address", ask, AddressCall(address, "name", <<>>))

Address_getAssetSymbol(address) ==
    LET ask == [kind |-> "symbol"] IN
    /\ Asks("address", ask)
    /\ Awaits("address", ask, AddressCall(address, "symbol", <<>>))

Address_getOwnerOf(address, tokenId) ==
    LET ask == [kind |-> "ownerOf", tokenId |-> tokenId] IN
    /\ Asks("address", ask)
    /\ Awaits("address", ask, AddressCall(address, "ownerOf", <<tokenId>>))

\* The callback of the one call, or of the last call, of an operation.
Address_callback ==
    /\ probe["address"].pc = "call"
    /\ probe["address"].ask.kind # "details"
    /\ LET calls == probe["address"].calls IN
       Ends("address", AddressCallback(Answer(calls[Len(calls)])))

\* getTokenURI asks for metadata support first.
Address_getTokenURI(address, tokenId) ==
    LET ask == [kind |-> "tokenURI", tokenId |-> tokenId] IN
    /\ Asks("address", ask)
    /\ Goes("address", ask,
            <<Address_contractSupportsInterface(address, ERC721_METADATA_INTERFACE_ID)>>,
            "supports", {}, <<>>)

\* A faulty variant: the token URI is asked for whatever the check said.
AddressTokenURICheckedAnyway(answer, address, tokenId) ==
    IF "error" \in DOMAIN answer
    THEN [ends |-> AddressCallback(answer)]
    ELSE [issues |-> AddressCall(address, "tokenURI", <<tokenId>>)]

\* getTokenURI once the metadata check has settled: the check's failure
\* propagates, no support is an error, support leads to the tokenURI call.
AddressTokenURIChecked(answer, address, tokenId) ==
    IF "error" \in DOMAIN answer
    THEN [ends |-> AddressCallback(answer)]
    ELSE IF ~answer.result
         THEN [ends |-> Rejected(MetadataError)]
         ELSE [issues |-> AddressCall(address, "tokenURI", <<tokenId>>)]

Address_getTokenURI_checked ==
    LET p == probe["address"]
        step == AddressTokenURIChecked(Answer(p.calls[1]), p.calls[1].to, p.ask.tokenId)
    IN
    /\ p.pc = "supports"
    /\ p.ask.kind = "tokenURI"
    /\ IF "ends" \in DOMAIN step
       THEN Ends("address", step.ends)
       ELSE Goes("address", p.ask, Append(p.calls, step.issues), "call", {}, p.got)

\* A value the code tests with if (tokenId).
Truthy(value) == value # Undefined /\ value # ""

\* A faulty variant: an aggregate is returned whatever the base check said.
AddressDetailsAlways(isERC721, tokenURI, symbol, name) ==
    Resolved([standard |-> ERC721, tokenURI |-> tokenURI, symbol |-> symbol, name |-> name])

\* The end of getDetails: the aggregate, or the error of a contract that is
\* not ERC721.
AddressDetails(isERC721, tokenURI, symbol, name) ==
    IF isERC721
    THEN Resolved([standard |-> ERC721, tokenURI |-> tokenURI, symbol |-> symbol, name |-> name])
    ELSE Rejected(NotERC721Error)

\* getDetails issues the base and the metadata check together; the calls are
\* numbered in the order they are issued: 1 base, 2 metadata, 3 symbol,
\* 4 name, 5 metadata again, 6 tokenURI.
Address_getDetails(address, tokenId) ==
    LET ask == [kind |-> "details", tokenId |-> tokenId] IN
    /\ Asks("address", ask)
    /\ Goes("address", ask,
            <<Address_contractSupportsInterface(address, ERC721_INTERFACE_ID),
              Address_contractSupportsInterface(address, ERC721_METADATA_INTERFACE_ID)>>,
            "checks", {1, 2}, <<>>)

\* getDetails once both checks have answered: with metadata support it asks
\* for symbol and name together, without it goes to its end.
AddressDetailsChecked(p, got) ==
    IF got[2]
    THEN [calls |-> p.calls \o <<AddressCall(p.calls[1].to, "symbol", <<>>),
                                 AddressCall(p.calls[1].to, "name", <<>>)>>,
          pc |-> "names", waiting |-> {3, 4}]
    ELSE [ends |-> AddressDetails(got[1], Undefined, Undefined, Undefined)]

\* A faulty variant: the token URI is asked for without a tokenId as well.
AddressDetailsNamedAnyway(p, got) ==
    [calls |-> Append(p.calls, Address_contractSupportsInterface(
                                   p.calls[1].to, ERC721_METADATA_INTERFACE_ID)),
     pc |-> "supports", waiting |-> {}]

\* getDetails once symbol and name have answered: with a tokenId it calls
\* getTokenURI, which asks for metadata support again.
AddressDetailsNamed(p, got) ==
    IF Truthy(p.ask.tokenId)
    THEN [calls |-> Append(p.calls, Address_contractSupportsInterface(
                                        p.calls[1].to, ERC721_METADATA_INTERFACE_ID)),
          pc |-> "supports", waiting |-> {}]
    ELSE [ends |-> AddressDetails(got[1], Undefined, got[3], got[4])]

\* One callback of a Promise.all of getDetails: the first error rejects
\* getDetails, the last answer lets it go on.
Address_getDetails_all(i) ==
    LET p == probe["address"]
        answer == Answer(p.calls[i])
        got == (i :> answer.result) @@ p.got
        step == IF p.pc = "checks" THEN AddressDetailsChecked(p, got)
                                   ELSE AddressDetailsNamed(p, got)
    IN
    /\ p.pc \in {"checks", "names"}
    /\ i \in p.waiting
    /\ IF "error" \in DOMAIN answer
       THEN Ends("address", AddressCallback(answer))
       ELSE IF p.waiting # {i}
            THEN Goes("address", p.ask, p.calls, p.pc, p.waiting \ {i}, got)
            ELSE IF "ends" \in DOMAIN step
                 THEN Ends("address", step.ends)
                 ELSE Goes("address", p.ask, step.calls, step.pc, step.waiting, got)

\* getTokenURI inside getDetails, once its metadata check has settled.
Address_getDetails_checked ==
    LET p == probe["address"]
        step == AddressTokenURIChecked(Answer(p.calls[5]), p.calls[5].to, p.ask.tokenId)
    IN
    /\ p.pc = "supports"
    /\ p.ask.kind = "details"
    /\ IF "ends" \in DOMAIN step
       THEN Ends("address", step.ends)
       ELSE Goes("address", p.ask, Append(p.calls, step.issues), "call", {}, p.got)

\* getTokenURI inside getDetails settles, and getDetails comes to its end.
Address_getDetails_tokenURI ==
    LET p == probe["address"]
        answer == Answer(p.calls[6])
    IN
    /\ p.pc = "call"
    /\ p.ask.kind = "details"
    /\ IF "error" \in DOMAIN answer
       THEN Ends("address", AddressCallback(answer))
       ELSE Ends("address", AddressDetails(p.got[1], answer.result, p.got[3], p.got[4]))

(***************************************************************************)
(* The probe that is given a contract's bound methods                      *)
(***************************************************************************)

\* The contract object handed to the probe: methods bound to an address.
ContractObject == [methods |-> ContractAddress]

\* contract.methods.method(...args, callback)
MethodsCall(object, method, args) ==
    [to |-> object.methods, method |-> method, args |-> args]

\* A faulty variant: a failed call counts as an answer of false.
MethodsCallbackFailureIsFalse(answer) ==
    IF "error" \in DOMAIN answer THEN Resolved(FALSE) ELSE Resolved(answer.result)

\* The callback of every remote call: reject with the error, if any, else
\* resolve with the result.
MethodsCallback(answer) ==
    IF "error" \in DOMAIN answer THEN Rejected(answer.error) ELSE Resolved(answer.result)

Methods_contractSupportsInterface(object, interfaceId) ==
    MethodsCall(object, "supportsInterface", <<interfaceId>>)

Methods_contractSupportsMetadataInterface(object) ==
    LET ask == [kind |-> "supportsMetadata"] IN
    /\ Asks("methods", ask)
    /\ Awaits("methods", ask,
              Methods_contractSupportsInterface(object, ERC721_METADATA_INTERFACE_ID))

Methods_contractSupportsEnumerableInterface(object) ==
    LET ask == [kind |-> "supportsEnumerable"] IN
    /\ Asks("methods", ask)
    /\ Awaits("methods", ask,
              Methods_contractSupportsInterface(object, ERC721_ENUMERABLE_INTERFACE_ID))

Methods_getCollectibleTokenId(object, selected, index) ==
    LET ask == [kind |-> "tokenId", selectedAddress |-> selected, index |-> index] IN
    /\ Asks("methods", ask)
    /\ Awaits("methods", ask, MethodsCall(object, "tokenOfOwnerByIndex", <<selected, index>>))

Methods_getAssetName(object) ==
    LET ask == [kind |-> "name"] IN
    /\ Asks("methods", ask)
    /\ Awaits("methods", ask, MethodsCall(object, "name", <<>>))

\* A faulty variant: the symbol is read with the name call.
Methods_getAssetSymbolByName(object) ==
    LET ask == [kind |-> "symbol"] IN
    /\ Asks("methods", ask)
    /\ Awaits("methods", ask, MethodsCall(object, "name", <<>>))

Methods_getAssetSymbol(object) ==
    LET ask == [kind |-> "symbol"] IN
    /\ Asks("methods", ask)
    /\ Awaits("methods", ask, MethodsCall(object, "symbol", <<>>))

Methods_getOwnerOf(object, tokenId) ==
    LET ask == [kind |-> "ownerOf", tokenId |-> tokenId] IN
    /\ Asks("methods", ask)
    /\ Awaits("methods", ask, MethodsCall(object, "ownerOf", <<tokenId>>))

\* The callback of the one call, or of the last call, of an operation.
Methods_callback ==
    /\ probe["methods"].pc = "call"
    /\ LET calls == probe["methods"].calls IN
       Ends("methods", MethodsCallback(Answer(calls[Len(calls)])))

\* getCollectibleTokenURI asks for metadata support first.
Methods_getCollectibleTokenURI(object, tokenId) ==
    LET ask == [kind |-> "tokenURI", tokenId |-> tokenId] IN
    /\ Asks("methods", ask)
    /\ Goes("methods", ask,
            <<Methods_contractSupportsInterface(object, ERC721_METADATA_INTERFACE_ID)>>,
            "supports", {}, <<>>)

\* getCollectibleTokenURI once the metadata check has settled.
MethodsTokenURIChecked(answer, object, tokenId) ==
    IF "error" \in DOMAIN answer
    THEN [ends |-> MethodsCallback(answer)]
    ELSE IF ~answer.result
         THEN [ends |-> Rejected(MetadataError)]
         ELSE [issues |-> MethodsCall(object, "tokenURI", <<tokenId>>)]

Methods_getCollectibleTokenURI_checked ==
    LET p == probe["methods"]
        step == MethodsTokenURIChecked(Answer(p.calls[1]), [methods |-> p.calls[1].to],
                                       p.ask.tokenId)
    IN
    /\ p.pc = "supports"
    /\ IF "ends" \in DOMAIN step
       THEN Ends("methods", step.ends)
       ELSE Goes("methods", p.ask, Append(p.calls, step.issues), "call", {}, p.got)

\* The tokenId getDetails may be given: a token, the empty string, or none.
DetailTokenIds == TokenIds \cup {"", Undefined}

AddressNext ==
    \/ Address_contractSupportsMetadataInterface(ContractAddress)
    \/ Address_contractSupportsEnumerableInterface(ContractAddress)
    \/ Address_contractSupportsBase721Interface(ContractAddress)
    \/ \E selected \in Owners, index \in Indexes :
          Address_getCollectibleTokenId(ContractAddress, selected, index)
    \/ Address_getAssetName(ContractAddress)
    \/ Address_getAssetSymbol(ContractAddress)
    \/ \E tokenId \in TokenIds : Address_getOwnerOf(ContractAddress, tokenId)
    \/ Address_callback
    \/ \E tokenId \in TokenIds : Address_getTokenURI(ContractAddress, tokenId)
    \/ Address_getTokenURI_checked
    \/ \E tokenId \in DetailTokenIds : Address_getDetails(ContractAddress, tokenId)
    \/ \E i \in 1..4 : Address_getDetails_all(i)
    \/ Address_getDetails_checked
    \/ Address_getDetails_tokenURI

MethodsNext ==
    \/ Methods_contractSupportsMetadataInterface(ContractObject)
    \/ Methods_contractSupportsEnumerableInterface(ContractObject)
    \/ \E selected \in Owners, index \in Indexes :
          Methods_getCollectibleTokenId(ContractObject, selected, index)
    \/ Methods_getAssetName(ContractObject)
    \/ Methods_getAssetSymbol(ContractObject)
    \/ \E tokenId \in TokenIds : Methods_getOwnerOf(ContractObject, tokenId)
    \/ Methods_callback
    \/ \E tokenId \in TokenIds : Methods_getCollectibleTokenURI(ContractObject, tokenId)
    \/ Methods_getCollectibleTokenURI_checked

ProbeNext == AddressNext \/ MethodsNext

SpecProbe == ProbeInit /\ [][ProbeNext]_vars

\* ------------------------------------------------------------ the claims

\* The checksummed addresses of the list the recorded call was given.
ListedAddresses == {toChecksumAddress(last.addresses[i]) : i \in 1..Len(last.addresses)}

\* selectedAddress is empty: '' as constructed, or undefined.
Unset(selected) == selected \in {"", Undefined}

\* C1: when removeIdentity(a) is called with a the selected address and a key
\* of identities, then afterwards selectedAddress is a key still in identities,
\* or is unset if identities is empty; it is never an address absent from
\* identities.
C1_RemoveSelectedLeavesKeyOrUnset ==
    (/\ last.op = "removeIdentity"
     /\ toChecksumAddress(last.address) = last.pre.selectedAddress
     /\ toChecksumAddress(last.address) \in KeySet(last.pre.identities))
    => IF identities = <<>>
       THEN Unset(selectedAddress)
       ELSE selectedAddress \in KeySet(identities)

\* The selected identity was removed while another remained, and that one
\* is now selected.
C1_Witness ==
    /\ last.op = "removeIdentity"
    /\ toChecksumAddress(last.address) = last.pre.selectedAddress
    /\ toChecksumAddress(last.address) \in KeySet(last.pre.identities)
    /\ toChecksumAddress(last.address) \notin KeySet(identities)
    /\ selectedAddress \in KeySet(identities)
    /\ selectedAddress # last.pre.selectedAddress

\* C2: in every state reachable by the public mutators, right after any
\* removeIdentity or syncIdentities call returns, selectedAddress is a key of
\* identities or is unset.
C2_SelectedIsKeyAfterRemoveOrSync ==
    last.op \in {"removeIdentity", "syncIdentities"}
    => (selectedAddress \in KeySet(identities) \/ Unset(selectedAddress))

\* C3: in every state reachable by the public mutators, every entry of
\* identities has an address field, and its key is the checksummed form of
\* that field.
C3_KeyIsChecksumOfAddress ==
    \A i \in 1..Len(identities) :
        /\ "address" \in DOMAIN identities[i].val
        /\ identities[i].key = toChecksumAddress(identities[i].val.address)

\* addresses[0] of the recorded call's checksummed list
FirstListed ==
    IF last.addresses = <<>> THEN Undefined ELSE toChecksumAddress(last.addresses[1])

\* C4: syncIdentities(list) moves every identity whose address is absent from
\* the checksummed list out of identities and into lostIdentities (over any
\* earlier lost entry for that address), keeps the identities whose addresses
\* are in the list, selects the first element of the list if the address
\* selected before is not in the list, and returns the selected address.
C4_SyncMovesAbsentKeepsListed ==
    last.op = "syncIdentities" =>
        /\ \A k \in KeySet(last.pre.identities) \ ListedAddresses :
              /\ k \notin KeySet(identities)
              /\ k \in DOMAIN lostIdentities
              /\ lostIdentities[k] = GetVal(last.pre.identities, k)
        /\ \A k \in KeySet(last.pre.identities) \cap ListedAddresses :
              /\ k \in KeySet(identities)
              /\ GetVal(identities, k) = GetVal(last.pre.identities, k)
        /\ (last.pre.selectedAddress \notin ListedAddresses
               => selectedAddress = FirstListed)
        /\ last.ret = selectedAddress

\* One identity was kept and the selected one was moved to the lost, over
\* an earlier lost record of the same address; the first of the list is now
\* selected and returned.
C4_Witness ==
    /\ last.op = "syncIdentities"
    /\ last.addresses # <<>>
    /\ last.pre.selectedAddress \in KeySet(last.pre.identities) \ ListedAddresses
    /\ last.pre.selectedAddress \in DOMAIN last.pre.lostIdentities
    /\ last.pre.lostIdentities[last.pre.selectedAddress]
         # GetVal(last.pre.identities, last.pre.selectedAddress)
    /\ KeySet(last.pre.identities) \cap ListedAddresses # {}
    /\ last.ret = toChecksumAddress(last.addresses[1])
    /\ selectedAddress = last.ret

\* The record an operation makes at key k for an address without a record:
\* the default one, numbered by addIdentities and syncIdentities from the
\* place the key takes in the map, by updateIdentities from the last place
\* of the address in its list, and for setAccountLabel the label alone.
FreshRecord(k) ==
    CASE last.op \in {"addIdentities", "syncIdentities"} ->
            [name |-> AccountName(CHOOSE i \in 1..Len(identities) :
                                      identities[i].key = k),
             address |-> k]
      [] last.op = "updateIdentities" ->
            [name |-> AccountName(CHOOSE i \in 1..Len(last.addresses) :
                          /\ toChecksumAddress(last.addresses[i]) = k
                          /\ \A j \in (i + 1)..Len(last.addresses) :
                                toChecksumAddress(last.addresses[j]) # k),
             address |-> k]
      [] last.op = "setAccountLabel" -> [name |-> last.label]

\* C5: a lost identity is never restored by itself: no operation removes an
\* entry of lostIdentities, none copies a lost record back into identities
\* (an address that was lost and had no identity gets the record any new
\* address gets), and a syncIdentities whose list has a lost address makes a
\* fresh identity for it, named 'Account N', not by the lost record's name.
C5_LostNeverRestored ==
    last.op # "none" =>
        /\ DOMAIN last.pre.lostIdentities \subseteq DOMAIN lostIdentities
        /\ \A k \in DOMAIN last.pre.lostIdentities \ KeySet(last.pre.identities) :
              /\ k \in KeySet(identities) => GetVal(identities, k) = FreshRecord(k)
              /\ (last.op = "syncIdentities" /\ k \in ListedAddresses)
                    => k \in KeySet(identities)
              /\ lostIdentities[k] = last.pre.lostIdentities[k]

\* An address lost under the name Savings is synced again: its new identity
\* is named 'Account N' and the lost record stays where it was.
C5_Witness ==
    /\ last.op = "syncIdentities"
    /\ \E k \in DOMAIN last.pre.lostIdentities \ KeySet(last.pre.identities) :
          /\ last.pre.lostIdentities[k].name = "Savings"
          /\ k \in ListedAddresses
          /\ k \in KeySet(identities)
          /\ GetVal(identities, k).name \in {AccountName(n) : n \in 1..2}
          /\ lostIdentities[k].name = "Savings"

\* C6: updateIdentities(list) replaces identities so that its keys are
\* exactly the checksummed addresses of list: an identity whose address is
\* absent from list is dropped, and lostIdentities is left as it was.
C6_UpdateReplacesKeysLeavesLost ==
    last.op = "updateIdentities" =>
        /\ KeySet(identities) = ListedAddresses
        /\ lostIdentities = last.pre.lostIdentities

\* An identity was dropped by updateIdentities and is not among the lost.
C6_Witness ==
    /\ last.op = "updateIdentities"
    /\ \E k \in KeySet(last.pre.identities) :
          /\ k \notin ListedAddresses
          /\ k \notin KeySet(identities)
          /\ k \notin DOMAIN lostIdentities
    /\ identities # <<>>

\* The checksummed address at place i (from 1) of the recorded call's list.
Listed(i) == toChecksumAddress(last.addresses[i])

\* The record keeps every field of old, and has the address a besides.
KeepsFields(record, old, a) ==
    /\ DOMAIN record = DOMAIN old \cup {"address"}
    /\ \A f \in DOMAIN old : record[f] = old[f]
    /\ "address" \notin DOMAIN old => record.address = a

\* C7 as stated: after updateIdentities(list), the address at input position
\* i (0-based) that had no identity record is named 'Account i+1' and has
\* its checksummed address, and an address that had a record keeps every
\* field of it, laid over that default.
C7_UpdateNumbersByPosition ==
    last.op = "updateIdentities" =>
        \A i \in 1..Len(last.addresses) :
            IF Listed(i) \in KeySet(last.pre.identities)
            THEN KeepsFields(GetVal(identities, Listed(i)),
                             GetVal(last.pre.identities, Listed(i)), Listed(i))
            ELSE GetVal(identities, Listed(i))
                   = [name |-> AccountName(i), address |-> Listed(i)]

\* C7, amended: the same, with the position taken to be the last one at
\* which the address occurs in the list.
C7_UpdateNumbersByLastPosition ==
    last.op = "updateIdentities" =>
        \A i \in 1..Len(last.addresses) :
            IF Listed(i) \in KeySet(last.pre.identities)
            THEN KeepsFields(GetVal(identities, Listed(i)),
                             GetVal(last.pre.identities, Listed(i)), Listed(i))
            ELSE (\A j \in (i + 1)..Len(last.addresses) : Listed(j) # Listed(i))
                    => GetVal(identities, Listed(i))
                         = [name |-> AccountName(i), address |-> Listed(i)]

\* updateIdentities was given an address with a custom name and, after it,
\* a new one: the first keeps its name, the second is 'Account 2'.
C7_Witness ==
    /\ last.op = "updateIdentities"
    /\ Len(last.addresses) = 2
    /\ Listed(1) \in KeySet(last.pre.identities)
    /\ GetVal(last.pre.identities, Listed(1)).name = "Savings"
    /\ Listed(2) \notin KeySet(last.pre.identities)
    /\ GetVal(identities, Listed(1)).name = "Savings"
    /\ GetVal(identities, Listed(2)) = [name |-> AccountName(2), address |-> Listed(2)]

\* The places of identities that the recorded call added.
AddedPlaces == (Len(last.pre.identities) + 1)..Len(identities)

\* The first place of the address a in the recorded call's list.
FirstPlace(a) ==
    CHOOSE i \in 1..Len(last.addresses) :
        /\ Listed(i) = a
        /\ \A j \in 1..(i - 1) : Listed(j) # a

\* C8: addIdentities(list) inserts, for each address of list in order that
\* is not yet a key, the record { name: 'Account N', address }, N being the
\* number of identities at that moment plus one: k new distinct addresses
\* added to m identities are named Account m+1 .. Account m+k in input
\* order, and a duplicate in the list makes no entry and skips no number.
C8_AddNumbersFromCount ==
    last.op = "addIdentities" =>
        /\ Len(identities)
             = Len(last.pre.identities)
               + Cardinality(ListedAddresses \ KeySet(last.pre.identities))
        /\ \A i \in 1..Len(last.pre.identities) : identities[i] = last.pre.identities[i]
        /\ {identities[i].key : i \in AddedPlaces}
             = ListedAddresses \ KeySet(last.pre.identities)
        /\ \A i \in AddedPlaces :
              identities[i].val
                = [name |-> AccountName(i), address |-> identities[i].key]
        /\ \A i, j \in AddedPlaces :
              i < j => FirstPlace(identities[i].key) < FirstPlace(identities[j].key)

\* One identity existed and the list named one new address twice, in two
\* letter cases: one entry was added, named 'Account 2'.
C8_Witness ==
    /\ last.op = "addIdentities"
    /\ Len(last.pre.identities) = 1
    /\ Len(last.addresses) = 2
    /\ last.addresses[1] # last.addresses[2]
    /\ Listed(1) = Listed(2)
    /\ Listed(1) \notin KeySet(last.pre.identities)
    /\ Len(identities) = 2
    /\ identities[2].val = [name |-> AccountName(2), address |-> Listed(1)]

\* C9 as stated: addIdentities and syncIdentities never change the fields of
\* an identity record that exists, and never drop from identities an
\* identity whose address is not in their list.
C9_AddAndSyncTouchNothing ==
    last.op \in {"addIdentities", "syncIdentities"} =>
        /\ \A k \in KeySet(last.pre.identities) \cap KeySet(identities) :
              GetVal(identities, k) = GetVal(last.pre.identities, k)
        /\ \A k \in KeySet(last.pre.identities) \ ListedAddresses :
              k \in KeySet(identities)

\* C9, amended: addIdentities and syncIdentities never change the fields of
\* an identity record that exists and stays; addIdentities drops no
\* identity, and syncIdentities drops the identities whose address is not in
\* its list, and no other.
C9_AddKeepsAllSyncKeepsListed ==
    last.op \in {"addIdentities", "syncIdentities"} =>
        /\ \A k \in KeySet(last.pre.identities) \cap KeySet(identities) :
              GetVal(identities, k) = GetVal(last.pre.identities, k)
        /\ last.op = "addIdentities"
              => KeySet(last.pre.identities) \subseteq KeySet(identities)
        /\ last.op = "syncIdentities"
              => KeySet(last.pre.identities) \cap KeySet(identities)
                   = KeySet(last.pre.identities) \cap ListedAddresses

\* syncIdentities kept a listed identity with its custom name and dropped
\* one that was not listed.
C9_Witness ==
    /\ last.op = "syncIdentities"
    /\ \E k \in KeySet(last.pre.identities) \cap ListedAddresses :
          /\ GetVal(last.pre.identities, k).name = "Savings"
          /\ GetVal(identities, k) = GetVal(last.pre.identities, k)
    /\ \E k \in KeySet(last.pre.identities) \ ListedAddresses :
          k \notin KeySet(identities)

\* The entry addToken makes from the arguments of the recorded call.
NewEntry ==
    [address |-> toChecksumAddress(last.address), symbol |-> last.symbol,
     decimals |-> last.decimals]

\* C10: addToken(address, symbol, decimals) with an address whose checksummed
\* form is that of a token in the list (in whatever letter case it is given)
\* replaces that token where it stands by the new symbol and decimals, the
\* length and every other entry of the list staying as they were; otherwise
\* it appends the new token; either way it returns the updated list.
C10_AddTokenReplacesInPlaceOrAppends ==
    last.op = "addToken" =>
        /\ IF \E i \in 1..Len(last.pre.tokens) :
                 last.pre.tokens[i].address = NewEntry.address
           THEN /\ Len(tokens) = Len(last.pre.tokens)
                /\ \A i \in 1..Len(tokens) :
                      tokens[i] = IF last.pre.tokens[i].address = NewEntry.address
                                  THEN NewEntry
                                  ELSE last.pre.tokens[i]
           ELSE tokens = Append(last.pre.tokens, NewEntry)
        /\ last.ret = tokens

\* The first of two tokens was added again in another letter case, with a
\* new symbol and new decimals: it was replaced where it stood.
C10_Witness ==
    /\ last.op = "addToken"
    /\ Len(last.pre.tokens) = 2
    /\ last.address # last.pre.tokens[1].address
    /\ toChecksumAddress(last.address) = last.pre.tokens[1].address
    /\ last.pre.tokens[1].symbol # last.symbol
    /\ last.pre.tokens[1].decimals # last.decimals
    /\ tokens = <<NewEntry, last.pre.tokens[2]>>
    /\ last.ret = tokens

\* The place in the token list found by the recorded call of the entry that
\* is now at place i.
PlaceBefore(i) == CHOOSE j \in 1..Len(last.pre.tokens) : last.pre.tokens[j] = tokens[i]

\* C11: in every state reached from the empty token list by addToken and
\* removeToken calls, no two entries of the token list have the same
\* checksummed address; and after removeToken(a) no entry with the address a
\* is left, while the other entries are all there, in the order they had.
C11_TokensUniqueRemoveKeepsOrder ==
    /\ \A i, j \in 1..Len(tokens) :
          i # j => toChecksumAddress(tokens[i].address)
                     # toChecksumAddress(tokens[j].address)
    /\ last.op = "removeToken" =>
          /\ \A i \in 1..Len(tokens) :
                tokens[i].address # toChecksumAddress(last.address)
          /\ Range(tokens)
               = {t \in Range(last.pre.tokens) :
                     t.address # toChecksumAddress(last.address)}
          /\ \A i, j \in 1..Len(tokens) : i < j => PlaceBefore(i) < PlaceBefore(j)

\* The middle one of three tokens was removed, named in another letter case
\* than the one it is stored in: the first and the third are left, in order.
C11_Witness ==
    /\ last.op = "removeToken"
    /\ Len(last.pre.tokens) = 3
    /\ last.address # last.pre.tokens[2].address
    /\ toChecksumAddress(last.address) = last.pre.tokens[2].address
    /\ tokens = <<last.pre.tokens[1], last.pre.tokens[3]>>

(***************************************************************************)
(* Claims about the ERC721Standard probes                                  *)
(***************************************************************************)

\* The metadata check as each variant issues it.
MetadataCheck == [to |-> ContractAddress, method |-> "supportsInterface",
                  args |-> <<ERC721_METADATA_INTERFACE_ID>>]

\* The deployed contract answers the metadata check with false.
MetadataUnsupported ==
    contract.supportsInterface[ERC721_METADATA_INTERFACE_ID] = Answered(FALSE)

\* C12: in both variants, when the metadata supportsInterface call answers
\* false, the token URI lookup never issues the tokenURI call, so the one
\* remote call it makes is the check, and it fails with the fixed error
\* 'Contract does not support ERC721 metadata interface.'.
C12_NoMetadataNoTokenURICall ==
    \A v \in Variants :
        IF probe[v] # Unasked /\ contract # EmptyObject
        THEN (probe[v].ask.kind = "tokenURI" /\ MetadataUnsupported) =>
                /\ probe[v].calls = <<MetadataCheck>>
                /\ probe[v].pc \in {"supports", "done"}
                /\ probe[v].pc = "done" => probe[v].result = Rejected(MetadataError)
        ELSE TRUE

C12_Witness ==
    /\ \A v \in Variants : probe[v].pc = "done" /\ probe[v].ask.kind = "tokenURI"
    /\ MetadataUnsupported
    /\ contract.tokenURI = Answered("ipfs://7")
    /\ \A v \in Variants : probe[v].result = Rejected(MetadataError)

\* getDetails has settled.
DetailsDone == probe["address"].pc = "done" /\ probe["address"].ask.kind = "details"

\* The deployed contract answers the base check with false.
BaseUnsupported == contract.supportsInterface[ERC721_INTERFACE_ID] = Answered(FALSE)

\* A remote call that getDetails issued has failed.
SomeCallFailed ==
    \E i \in 1..Len(probe["address"].calls) :
        "error" \in DOMAIN Answer(probe["address"].calls[i])

\* C13, as stated: getDetails fails with the error "This isn't a valid ERC721
\* contract" whenever the base-interface check returns false, whatever else
\* happened, and returns an aggregate only when the base check returns true.
C13_NotERC721ErrorWheneverBaseFalse ==
    DetailsDone =>
        /\ BaseUnsupported => probe["address"].result = Rejected(NotERC721Error)
        /\ probe["address"].result.status = "resolved" =>
              contract.supportsInterface[ERC721_INTERFACE_ID] = Answered(TRUE)

\* C13, amended: getDetails fails whenever the base-interface check returns
\* false, with the error "This isn't a valid ERC721 contract" unless a remote
\* call failed first, in which case the failure of an issued call is the
\* error; it returns an aggregate only when the base check returns true.
C13_FailsWheneverBaseFalse ==
    DetailsDone =>
        /\ BaseUnsupported =>
              /\ probe["address"].result.status = "rejected"
              /\ ~SomeCallFailed => probe["address"].result = Rejected(NotERC721Error)
              /\ SomeCallFailed =>
                    \E i \in 1..Len(probe["address"].calls) :
                        Answer(probe["address"].calls[i]) = Failed(probe["address"].result.error)
        /\ probe["address"].result.status = "resolved" =>
              contract.supportsInterface[ERC721_INTERFACE_ID] = Answered(TRUE)

C13_Witness ==
    /\ DetailsDone
    /\ BaseUnsupported
    /\ probe["address"].ask.tokenId = "7"
    /\ Len(probe["address"].calls) = 6
    /\ DOMAIN probe["address"].got = {1, 2, 3, 4}
    /\ probe["address"].result = Rejected(NotERC721Error)

\* The methods of the remote calls the address variant has issued.
MethodsIssued ==
    {probe["address"].calls[i].method : i \in 1..Len(probe["address"].calls)}

\* C14: getDetails called without a tokenId never issues a tokenURI call,
\* with or without metadata support; without metadata support getDetails
\* issues no symbol, name or tokenURI call and leaves tokenURI, symbol and
\* name unset in the aggregate it returns.
C14_DetailsSkipsUnsupportedCalls ==
    IF probe["address"] # Unasked /\ contract # EmptyObject
    THEN probe["address"].ask.kind = "details" =>
            /\ ~Truthy(probe["address"].ask.tokenId) => "tokenURI" \notin MethodsIssued
            /\ MetadataUnsupported =>
                  /\ MethodsIssued \cap {"symbol", "name", "tokenURI"} = {}
                  /\ probe["address"].result.status = "resolved" =>
                        /\ probe["address"].result.value.tokenURI = Undefined
                        /\ probe["address"].result.value.symbol = Undefined
                        /\ probe["address"].result.value.name = Undefined
    ELSE TRUE

C14_Witness ==
    /\ DetailsDone
    /\ probe["address"].ask.tokenId = Undefined
    /\ contract.supportsInterface[ERC721_METADATA_INTERFACE_ID] = Answered(TRUE)
    /\ contract.tokenURI = Answered("ipfs://7")
    /\ probe["address"].result =
          Resolved([standard |-> ERC721, tokenURI |-> Undefined, symbol |-> "KIT",
                    name |-> "Kitties"])
    /\ MethodsIssued = {"supportsInterface", "symbol", "name"}

\* The interface identifier each support query asks about.
QueriedInterface(kind) ==
    CASE kind = "supportsMetadata" -> ERC721_METADATA_INTERFACE_ID
      [] kind = "supportsEnumerable" -> ERC721_ENUMERABLE_INTERFACE_ID
      [] kind = "supportsBase721" -> ERC721_INTERFACE_ID

SupportQueries == {"supportsMetadata", "supportsEnumerable", "supportsBase721"}

\* C15: each support query issues exactly one supportsInterface call, with
\* the identifier of the interface it asks about, resolves to the boolean
\* the contract answered and rejects with the call's own error: a failed
\* call is never turned into false.
C15_SupportQueryIsOneCall ==
    \A v \in Variants :
        IF probe[v] # Unasked /\ contract # EmptyObject
        THEN probe[v].ask.kind \in SupportQueries =>
                LET interfaceId == QueriedInterface(probe[v].ask.kind)
                    answer == contract.supportsInterface[interfaceId]
                IN
                /\ probe[v].calls = <<[to |-> ContractAddress, method |-> "supportsInterface",
                                       args |-> <<interfaceId>>]>>
                /\ probe[v].pc = "done" =>
                      IF "error" \in DOMAIN answer
                      THEN probe[v].result = Rejected(answer.error)
                      ELSE probe[v].result = Resolved(answer.result)
        ELSE TRUE

C15_Witness ==
    /\ \A v \in Variants : probe[v].pc = "done" /\ probe[v].ask.kind = "supportsEnumerable"
    /\ contract.supportsInterface[ERC721_ENUMERABLE_INTERFACE_ID] = Failed("supportsInterface reverted")
    /\ contract.supportsInterface[ERC721_METADATA_INTERFACE_ID] = Answered(TRUE)
    /\ \A v \in Variants : probe[v].result = Rejected("supportsInterface reverted")

\* Both variants have been asked the same question and have settled.
BothDone == \A v \in Variants : probe[v].pc = "done"

\* C16: on the operations they share, the two variants issue the same remote
\* calls with the same arguments in the same order and settle alike, with
\* the same result or the same propagated failure.
C16_VariantsAgree ==
    /\ (\A v \in Variants : probe[v] # Unasked) =>
          /\ probe["address"].ask = probe["methods"].ask
          /\ \A i \in 1..Len(probe["address"].calls) :
                i <= Len(probe["methods"].calls) =>
                    probe["address"].calls[i] = probe["methods"].calls[i]
    /\ BothDone =>
          /\ probe["address"].calls = probe["methods"].calls
          /\ probe["address"].result = probe["methods"].result

C16_Witness ==
    /\ BothDone
    /\ probe["address"].ask.kind = "tokenURI"
    /\ Len(probe["methods"].calls) = 2
    /\ probe["methods"].calls[2].method = "tokenURI"
    /\ probe["address"].result = Resolved("ipfs://7")
    /\ probe["methods"].result = Resolved("ipfs://7")

(***************************************************************************)
(* Further claims about the preferences store                              *)
(***************************************************************************)

\* C17, as stated: every call of a public mutator makes exactly one update
\* call, so subscribers are told of no intermediate state.
C17_OneUpdatePerCall ==
    last.op # "none" => last.updates = 1

\* The first place of the list whose element makes toChecksumAddress throw.
FirstThrow ==
    CHOOSE i \in 1..Len(last.addresses) :
        /\ Throws(last.addresses[i])
        /\ \A j \in 1..(i - 1) : ~Throws(last.addresses[j])

\* C18: when toChecksumAddress throws on an element of the list, addIdentities
\* makes no update call, and the identities inserted for the elements before
\* that one stay in identities: the keys are those from before the call and
\* the checksummed earlier elements, and nothing else of the state changes.
C18_AbortKeepsEarlierInsertions ==
    (last.op = "addIdentities" /\ \E i \in 1..Len(last.addresses) : Throws(last.addresses[i])) =>
        /\ last.updates = 0
        /\ KeySet(identities) =
              KeySet(last.pre.identities)
                 \cup {toChecksumAddress(last.addresses[j]) : j \in 1..(FirstThrow - 1)}
        /\ \A k \in KeySet(last.pre.identities) :
              GetVal(identities, k) = GetVal(last.pre.identities, k)
        /\ lostIdentities = last.pre.lostIdentities
        /\ selectedAddress = last.pre.selectedAddress
        /\ tokens = last.pre.tokens
        /\ featureFlags = last.pre.featureFlags

C18_Witness ==
    /\ last.op = "addIdentities"
    /\ last.addresses = <<"0xab", Undefined, "0xCd">>
    /\ last.pre.identities = <<>>
    /\ last.updates = 0
    /\ KeySet(identities) = {"0xaB"}

\* C19, as stated: after syncIdentities(list) the keys of identities are the
\* checksummed addresses of the list, whatever the state before, and for a
\* list that is not empty the address returned is an element of the list.
C19_SyncKeysAreListReturnInList ==
    last.op = "syncIdentities" =>
        /\ KeySet(identities) = ListedAddresses
        /\ last.addresses # <<>> => last.ret \in Range(last.addresses)

\* C19, amended: after syncIdentities(list) the keys of identities are the
\* checksummed addresses of the list, whatever the state before, and for a
\* list that is not empty the address returned is the checksummed form of an
\* element of the list.
C19_SyncKeysAreListReturnIsListed ==
    last.op = "syncIdentities" =>
        /\ KeySet(identities) = ListedAddresses
        /\ last.addresses # <<>> => last.ret \in ListedAddresses

\* The list is given in lower case, and before the call there is an identity
\* made by setAccountLabel, without an address field, that is not in the list.
C19_Witness ==
    /\ last.op = "syncIdentities"
    /\ last.addresses = <<"0xab">>
    /\ \E k \in KeySet(last.pre.identities) \ {"0xaB"} :
          "address" \notin DOMAIN GetVal(last.pre.identities, k)
    /\ KeySet(identities) = {"0xaB"}
    /\ last.ret = "0xaB"

IdentityCalls ==
    {"addIdentities", "removeIdentity", "setAccountLabel", "syncIdentities", "updateIdentities"}

\* C20: addToken and removeToken leave identities, lostIdentities,
\* selectedAddress and featureFlags as they were; the identity calls leave
\* tokens and featureFlags as they were; setFeatureFlag changes the flag it
\* names and nothing else; removeIdentity of an address that is no key
\* changes nothing.
C20_CallsChangeOnlyTheirPart ==
    /\ last.op \in {"addToken", "removeToken"} =>
          /\ identities = last.pre.identities
          /\ lostIdentities = last.pre.lostIdentities
          /\ selectedAddress = last.pre.selectedAddress
          /\ featureFlags = last.pre.featureFlags
    /\ last.op \in IdentityCalls =>
          /\ tokens = last.pre.tokens
          /\ featureFlags = last.pre.featureFlags
    /\ last.op = "setFeatureFlag" =>
          /\ DOMAIN featureFlags = DOMAIN last.pre.featureFlags \cup {last.feature}
          /\ featureFlags[last.feature] = last.activated
          /\ \A f \in DOMAIN last.pre.featureFlags \ {last.feature} :
                featureFlags[f] = last.pre.featureFlags[f]
          /\ identities = last.pre.identities
          /\ lostIdentities = last.pre.lostIdentities
          /\ selectedAddress = last.pre.selectedAddress
          /\ tokens = last.pre.tokens
    /\ (/\ last.op = "removeIdentity"
        /\ toChecksumAddress(last.address) \notin KeySet(last.pre.identities)) =>
          State = last.pre

\* A flag is switched off while another flag, a token, two identities and a
\* lost identity are there.
C20_Witness ==
    /\ last.op = "setFeatureFlag"
    /\ last.feature = "beta"
    /\ last.pre.featureFlags = [beta |-> TRUE, dark |-> TRUE]
    /\ featureFlags = [beta |-> FALSE, dark |-> TRUE]
    /\ tokens # <<>>
    /\ Len(identities) = 2
    /\ DOMAIN lostIdentities # {}

====
